---------------------------- MODULE Spec2Model ----------------------------
(***************************************************************************)
(* Model of the binary operators of the equation resolver                  *)
(* (src/unnamed/part_000, lines 12-267): plus, minus, plusminus, multiply, *)
(* multiplyImplied, divide, power, the unit algebra mapUnit / mapUnits and *)
(* the central dispatcher handleCases.                                     *)
(*                                                                         *)
(* The operators are pure functions, so each is a (RECURSIVE) operator and *)
(* the state machine draws two operands and applies one operator to them.  *)
(* Closures handed to handleCases / mapUnits are defunctionalised: a       *)
(* record `cb` names the calling operator (and what its closures capture), *)
(* and combineUnits / numberNumber / ... select the closure's body.        *)
(* A thrown Error is an outcome with ok = FALSE; every outcome carries a   *)
(* ghost `log` of the unit rule and shape combinators invoked, in order.   *)
(***************************************************************************)
EXTENDS Integers, Sequences, FiniteSets, TLC

VARIABLES a, b, op, out, depth, ua, ub, umapper, uout

vars == <<a, b, op, out, depth, ua, ub, umapper, uout>>

-----------------------------------------------------------------------------
(* Bounds of the model *)

\* largest scalar value among the operands (scalars are -1..MaxVal)
MaxVal == 3
\* largest matrix dimension among the operands
MaxDim == 3
\* largest unit exponent among the operands
MaxExp == 2
\* how many results are fed back as operands of a further operator
MaxDepth == 2
\* a result is fed back only while its numerators and denominators are this small
MaxMag == 4

-----------------------------------------------------------------------------
(* JavaScript numbers.  A number is [num, den]: a finite nonzero value is  *)
(* the reduced fraction num/den with den > 0; +0 is 0/1 and -0 is 0/-1;    *)
(* +Infinity is 1/0, -Infinity is -1/0 and NaN is 0/0.  Arithmetic is      *)
(* exact on finite values (rounding and overflow are not modelled) and     *)
(* follows IEEE 754 on zeros, infinities and NaN.                          *)

\* Body applied to the value of e, which is computed once
Bind(e, Body(_)) == CHOOSE r \in {Body(v) : v \in {e}} : TRUE

Abs(i) == IF i < 0 THEN -i ELSE i

Sgn(i) == IF i < 0 THEN -1 ELSE IF i > 0 THEN 1 ELSE 0

RECURSIVE GCD(_, _)
GCD(x, y) == IF y = 0 THEN x ELSE GCD(y, x % y)

Num(i) == [num |-> i, den |-> 1]

NaN == [num |-> 0, den |-> 0]

NegZero == [num |-> 0, den |-> -1]

Inf(s) == [num |-> s, den |-> 0]

IsNaN(x) == x.num = 0 /\ x.den = 0

IsInf(x) == x.num # 0 /\ x.den = 0

IsZero(x) == x.num = 0 /\ x.den # 0

IsFinite(x) == x.den # 0

IsInteger(x) == x.den = 1 \/ IsZero(x)

Sign(x) == IF x.num # 0 THEN Sgn(x.num) ELSE Sgn(x.den)

SignedZero(s) == [num |-> 0, den |-> s]

\* the reduced fraction n/d, for n # 0 and d # 0
Norm(n, d) ==
    LET g == GCD(Abs(n), Abs(d))
    IN  [num |-> Sgn(d) * Sgn(n) * (Abs(n) \div g), den |-> Abs(d) \div g]

\* x + y
Add(x, y) ==
    IF IsNaN(x) \/ IsNaN(y) THEN NaN
    ELSE IF IsInf(x) /\ IsInf(y) THEN (IF x = y THEN x ELSE NaN)
    ELSE IF IsInf(x) THEN x
    ELSE IF IsInf(y) THEN y
    ELSE IF IsZero(x) /\ IsZero(y)
         THEN (IF x = NegZero /\ y = NegZero THEN NegZero ELSE Num(0))
    ELSE LET n == x.num * Abs(y.den) + y.num * Abs(x.den)
         IN  IF n = 0 THEN Num(0) ELSE Norm(n, Abs(x.den) * Abs(y.den))

\* -x
Neg(x) ==
    IF IsNaN(x) THEN NaN
    ELSE IF IsZero(x) THEN SignedZero(-x.den)
    ELSE [num |-> -x.num, den |-> x.den]

\* x * y
Mul(x, y) ==
    IF IsNaN(x) \/ IsNaN(y) THEN NaN
    ELSE IF (IsInf(x) /\ IsZero(y)) \/ (IsZero(x) /\ IsInf(y)) THEN NaN
    ELSE IF IsInf(x) \/ IsInf(y) THEN Inf(Sign(x) * Sign(y))
    ELSE IF IsZero(x) \/ IsZero(y) THEN SignedZero(Sign(x) * Sign(y))
    ELSE Norm(x.num * y.num, x.den * y.den)

\* x / y
Div(x, y) ==
    IF IsNaN(x) \/ IsNaN(y) THEN NaN
    ELSE IF (IsInf(x) /\ IsInf(y)) \/ (IsZero(x) /\ IsZero(y)) THEN NaN
    ELSE IF IsInf(x) \/ IsZero(y) THEN Inf(Sign(x) * Sign(y))
    ELSE IF IsInf(y) \/ IsZero(x) THEN SignedZero(Sign(x) * Sign(y))
    ELSE Norm(x.num * y.den, x.den * y.num)

\* x === y on numbers: NaN equals nothing, +0 equals -0
StrictEq(x, y) ==
    /\ ~IsNaN(x)
    /\ ~IsNaN(y)
    /\ (x = y \/ (IsZero(x) /\ IsZero(y)))

\* the truthiness of a number: false for +0, -0 and NaN
Truthy(x) == ~IsZero(x) /\ ~IsNaN(x)

\* x multiplied k times by itself, k >= 0
RECURSIVE PowNat(_, _)
PowNat(x, k) ==
    IF k = 0 THEN Num(1) ELSE Bind(PowNat(x, k - 1), LAMBDA p : Mul(x, p))

\* |x| compared with 1: -1, 0 or 1 (x not NaN)
AbsCmpOne(x) ==
    IF IsInf(x) THEN 1
    ELSE IF Abs(x.num) > Abs(x.den) THEN 1
    ELSE IF Abs(x.num) < Abs(x.den) THEN -1
    ELSE 0

\* Math.pow is modelled for every exponent but a finite non-integer one
PowDefined(y) == ~IsFinite(y) \/ IsInteger(y)

\* Math.pow(x, y), for PowDefined(y)
Pow(x, y) ==
    IF IsZero(y) THEN Num(1)
    ELSE IF IsNaN(y) \/ IsNaN(x) THEN NaN
    ELSE IF IsInf(y)
         THEN (IF AbsCmpOne(x) = 0 THEN NaN
               ELSE IF AbsCmpOne(x) = Sign(y) THEN Inf(1)
               ELSE Num(0))
    ELSE IF y.num > 0 THEN PowNat(x, y.num)
    ELSE Bind(PowNat(x, -y.num), LAMBDA p : Div(Num(1), p))

-----------------------------------------------------------------------------
(* Result trees and outcomes *)

Null == [type |-> "null"]

NoError == [msg |-> "", dims |-> <<>>]

Error(msg) == [msg |-> msg, dims |-> <<>>]

\* an Error whose message quotes the shapes of two matrices
ShapeError(msg, x, y) == [msg |-> msg, dims |-> <<x.m, x.n, y.m, y.n>>]

\* a returned value
Ok(v, log) == [ok |-> TRUE, val |-> v, err |-> NoError, log |-> log]

\* a thrown Error
Throw(e, log) == [ok |-> FALSE, val |-> Null, err |-> e, log |-> log]

valueWrap(x) == [type |-> "number", value |-> x]

EmptyUnit == [k \in {} |-> Num(0)]

getUnit(x) == IF x.type = "unit" THEN x.units ELSE EmptyUnit

getUnitless(x) == IF x.type = "unit" THEN x.value ELSE x

isEmptyUnit(u) == DOMAIN u = {}

\* called on the two unit maps handed to plus's unit rule (line 23)
isSameUnit(x, y) ==
    /\ DOMAIN x = DOMAIN y
    /\ \A k \in DOMAIN x : StrictEq(x[k], y[k])

\* the outcomes of the calls made for the cells of an m x n matrix, in
\* row-major order: the first Error thrown ends the traversal
RECURSIVE ConcatLogs(_, _)
ConcatLogs(outs, upto) ==
    IF upto = 0 THEN <<>> ELSE ConcatLogs(outs, upto - 1) \o outs[upto].log

\* the first k cell outcomes, in row-major order, up to the first Error
RECURSIVE CellOutcomes(_, _, _)
CellOutcomes(n, outs, k) ==
    IF k = 0 THEN <<>>
    ELSE Bind(CellOutcomes(n, outs, k - 1), LAMBDA done :
            IF Len(done) < k - 1 \/ (k > 1 /\ ~done[k - 1].ok) THEN done
            ELSE Append(done, outs[((k - 1) \div n) + 1][((k - 1) % n) + 1]))

CollectCells(m, n, outs) ==
    Bind(CellOutcomes(n, outs, m * n), LAMBDA flat :
        IF flat[Len(flat)].ok
        THEN Ok([type |-> "matrix", m |-> m, n |-> n,
                 values |-> [i \in 1..m |-> [j \in 1..n |-> flat[(i - 1) * n + j].val]]],
                ConcatLogs(flat, Len(flat)))
        ELSE Throw(flat[Len(flat)].err, ConcatLogs(flat, Len(flat))))

RECURSIVE negate(_)
negate(x) ==
    CASE x.type = "number" -> valueWrap(Neg(x.value))
      [] x.type = "matrix" ->
            [x EXCEPT !.values = [i \in 1..x.m |-> [j \in 1..x.n |-> negate(x.values[i][j])]]]
      [] x.type = "unit" -> [x EXCEPT !.value = negate(x.value)]

-----------------------------------------------------------------------------
(* Unit algebra.  The closures are records.  A binary mapper is "sum"      *)
(* (multiply, line 63) or "difference" (divide, line 125).  The closure    *)
(* mapUnit receives is "scale" by a captured factor (power, line 145) or   *)
(* "pair", the closure of lines 163-165 that captures mapUnits' b and      *)
(* mapper.  `calls` counts the invocations of the mapper per key.          *)

SumMapper == [kind |-> "sum"]

DifferenceMapper == [kind |-> "difference"]

ScaleMapper(bTree) == [kind |-> "scale", factor |-> bTree.value]

PairMapper(y, mapper) == [kind |-> "pair", other |-> y, mapper |-> mapper]

\* the body of a binary mapper
ApplyMapper(mapper, x, y) ==
    CASE mapper.kind = "sum" -> Add(x, y)
      [] mapper.kind = "difference" -> Add(x, Neg(y))

\* x[key] || 0
OrZero(x, key) == IF key \in DOMAIN x /\ Truthy(x[key]) THEN x[key] ELSE Num(0)

\* the body of a closure handed to mapUnit
ApplyEntryMapper(f, value, key) ==
    CASE f.kind = "scale" -> Mul(value, f.factor)
      [] f.kind = "pair" -> ApplyMapper(f.mapper, value, OrZero(f.other, key))

\* a unit map as the set of its entries <<key, value>>, each computed once
Entries(x) == {<<k, x[k]>> : k \in DOMAIN x}

FromEntries(es) == [k \in {e[1] : e \in es} |-> (CHOOSE e \in es : e[1] = k)[2]]

\* mapUnit without the test of line 182
mapUnitKeepsZero(x, f) ==
    Bind({<<e[1], ApplyEntryMapper(f, e[2], e[1])>> : e \in Entries(x)}, LAMBDA newValue :
        [result |-> FromEntries(newValue),
         calls  |-> [k \in DOMAIN x |-> 1]])

mapUnit(x, f) ==
    Bind({<<e[1], ApplyEntryMapper(f, e[2], e[1])>> : e \in Entries(x)}, LAMBDA newValue :
        [result |-> FromEntries({e \in newValue : ~StrictEq(e[2], Num(0))}),
         calls  |-> [k \in DOMAIN x |-> 1]])

\* mapUnits without the `continue` of line 168
mapUnitsVisitsTwice(x, y, mapper) ==
    Bind(mapUnit(x, PairMapper(y, mapper)), LAMBDA first :
    Bind(Entries(y), LAMBDA rest :
    Bind({<<e[1], ApplyMapper(mapper, Num(0), e[2])>> : e \in rest}, LAMBDA newValue :
    Bind({e \in newValue : ~StrictEq(e[2], Num(0))}, LAMBDA added :
        [result |-> FromEntries(added \cup
                        {e \in Entries(first.result) : \A d \in added : d[1] # e[1]}),
         calls  |-> [k \in DOMAIN x \cup DOMAIN y |->
                        (IF k \in DOMAIN x THEN first.calls[k] ELSE 0)
                        + (IF \E e \in rest : e[1] = k THEN 1 ELSE 0)]]))))

mapUnits(x, y, mapper) ==
    Bind(mapUnit(x, PairMapper(y, mapper)), LAMBDA first :
    Bind({e \in Entries(y) : ~(e[1] \in DOMAIN x /\ Truthy(x[e[1]]))}, LAMBDA rest :
    Bind({<<e[1], ApplyMapper(mapper, Num(0), e[2])>> : e \in rest}, LAMBDA newValue :
    Bind({e \in newValue : ~StrictEq(e[2], Num(0))}, LAMBDA added :
        [result |-> FromEntries(added \cup
                        {e \in Entries(first.result) : \A d \in added : d[1] # e[1]}),
         calls  |-> [k \in DOMAIN x \cup DOMAIN y |->
                        (IF k \in DOMAIN x THEN first.calls[k] ELSE 0)
                        + (IF \E e \in rest : e[1] = k THEN 1 ELSE 0)]]))))

-----------------------------------------------------------------------------
(* The operators.  `cb` stands for the five closures an operator hands to  *)
(* handleCases: cb.op names the operator and cb.bTree is the exponent tree *)
(* that power's unit rule captures.                                        *)

Callbacks(o, bTree) == [op |-> o, bTree |-> bTree]

mapMatrix(x, cellOutcomes) == CollectCells(x.m, x.n, cellOutcomes)

RECURSIVE handleCases(_, _, _)

plus(aTree, bTree) == handleCases(aTree, bTree, Callbacks("+", Null))

minus(x, y) == plus(x, negate(y))

plusminus(x, y) == Throw(Error("Equation resolve: cannot handle +- operator"), <<>>)

multiply(aTree, bTree) == handleCases(aTree, bTree, Callbacks("*", Null))

\* the reduce of lines 85-88 over the first k rows
RECURSIVE ScalarSum(_, _, _)
ScalarSum(x, y, k) ==
    IF k = 0 THEN Num(0)
    ELSE Bind(ScalarSum(x, y, k - 1), LAMBDA current :
         Bind(Mul(x.values[k][1].value, y.values[k][1].value), LAMBDA product :
            Add(current, product)))

scalarProduct(x, y) ==
    IF x.m # y.m
    THEN Throw(Error("Equation resolve: scalar product requires balanced vectors"), <<>>)
    ELSE Ok(valueWrap(ScalarSum(x, y, Len(x.values))), <<>>)

\* the reduce of lines 104-107 over the first k cells of row aRow of x
RECURSIVE InnerSum(_, _, _, _, _)
InnerSum(x, y, aRow, bCol, k) ==
    IF k = 0 THEN Num(0)
    ELSE Bind(InnerSum(x, y, aRow, bCol, k - 1), LAMBDA current :
         Bind(Mul(x.values[aRow][k].value, y.values[k][bCol].value), LAMBDA product :
            Add(current, product)))

\* matrixProduct taking the result's columns from b's rows
matrixProductWrongColumns(x, y) ==
    IF x.n # y.m
    THEN Throw(ShapeError("Equation resolve: cannot multiply matrix with matrix", x, y), <<>>)
    ELSE Ok([type |-> "matrix", m |-> x.m, n |-> y.n,
             values |-> [aRow \in 1..Len(x.values) |->
                           [bCol \in 1..Len(y.values) |->
                              valueWrap(InnerSum(x, y, aRow, 1 + ((bCol - 1) % y.n),
                                                 Len(x.values[aRow])))]]],
            <<>>)

matrixProduct(x, y) ==
    IF x.n # y.m
    THEN Throw(ShapeError("Equation resolve: cannot multiply matrix with matrix", x, y), <<>>)
    ELSE Ok([type |-> "matrix", m |-> x.m, n |-> y.n,
             values |-> [aRow \in 1..Len(x.values) |->
                           [bCol \in 1..Len(y.values[1]) |->
                              valueWrap(InnerSum(x, y, aRow, bCol, Len(x.values[aRow])))]]],
            <<>>)

multiplyImplied(x, y) ==
    IF x.type = "matrix" /\ y.type = "matrix" /\ x.n = 1 /\ y.n = 1
    THEN Throw(Error("Equation resolve: cannot use implied multiplication for scalar product"), <<>>)
    ELSE multiply(x, y)

divide(aTree, bTree) ==
    IF bTree.type = "number" /\ StrictEq(bTree.value, Num(0))
    THEN Throw(Error("Equation resolve: cannot divide by 0"), <<>>)
    ELSE handleCases(aTree, bTree, Callbacks("/", Null))

power(aTree, bTree) ==
    IF bTree.type = "unit"
    THEN Throw(Error("Equation resolve: exponent must be unitless"), <<>>)
    ELSE IF bTree.type # "number"
    THEN Throw(Error("Equation resolve: exponent must be a number"), <<>>)
    ELSE handleCases(aTree, bTree, Callbacks("^", bTree))

\* plus's unit rule comparing the unit names alone
plusCombineUnitsKeysOnly(x, y) ==
    IF DOMAIN x # DOMAIN y
    THEN Throw(Error("Equation resolve: cannot add different units"), <<>>)
    ELSE Ok(x, <<>>)

\* plus's unit rule combining the exponents as divide does
plusCombineUnitsCancel(x, y) ==
    IF ~isSameUnit(x, y)
    THEN Throw(Error("Equation resolve: cannot add different units"), <<>>)
    ELSE Ok(mapUnits(x, y, DifferenceMapper).result, <<>>)

\* plus's unit rule
plusCombineUnits(x, y) ==
    IF ~isSameUnit(x, y)
    THEN Throw(Error("Equation resolve: cannot add different units"), <<>>)
    ELSE Ok(x, <<>>)

\* the first closure of each operator
combineUnits(cb, x, y) ==
    CASE cb.op = "+" -> plusCombineUnits(x, y)
      [] cb.op = "*" -> Ok(mapUnits(x, y, SumMapper).result, <<>>)
      [] cb.op = "/" -> Ok(mapUnits(x, y, DifferenceMapper).result, <<>>)
      [] cb.op = "^" -> Ok(mapUnit(x, ScaleMapper(cb.bTree)).result, <<>>)

\* the shape pairs for which an operator passes null
NullCombinators(cb) ==
    CASE cb.op = "/" -> {"matrixMatrix"}
      [] cb.op = "^" -> {"numberMatrix", "matrixMatrix"}
      [] OTHER -> {}

numberNumber(cb, x, y) ==
    CASE cb.op = "+" -> Ok(valueWrap(Add(x.value, y.value)), <<>>)
      [] cb.op = "*" -> Ok(valueWrap(Mul(x.value, y.value)), <<>>)
      [] cb.op = "/" -> Ok(valueWrap(Div(x.value, y.value)), <<>>)
      [] cb.op = "^" -> Ok(valueWrap(Pow(x.value, y.value)), <<>>)

\* numberMatrix with divide's operands swapped
numberMatrixDividesCells(cb, x, y) ==
    CASE cb.op = "+" ->
            mapMatrix(y, [i \in 1..y.m |-> [j \in 1..y.n |-> plus(x, y.values[i][j])]])
      [] cb.op = "*" ->
            mapMatrix(y, [i \in 1..y.m |-> [j \in 1..y.n |-> multiply(x, y.values[i][j])]])
      [] cb.op = "/" ->
            mapMatrix(y, [i \in 1..y.m |-> [j \in 1..y.n |-> divide(y.values[i][j], x)]])

numberMatrix(cb, x, y) ==
    CASE cb.op = "+" ->
            mapMatrix(y, [i \in 1..y.m |-> [j \in 1..y.n |-> plus(x, y.values[i][j])]])
      [] cb.op = "*" ->
            mapMatrix(y, [i \in 1..y.m |-> [j \in 1..y.n |-> multiply(x, y.values[i][j])]])
      [] cb.op = "/" ->
            mapMatrix(y, [i \in 1..y.m |-> [j \in 1..y.n |-> divide(x, y.values[i][j])]])

matrixNumber(cb, x, y) ==
    CASE cb.op = "+" ->
            mapMatrix(x, [i \in 1..x.m |-> [j \in 1..x.n |-> plus(x.values[i][j], y)]])
      [] cb.op = "*" ->
            mapMatrix(x, [i \in 1..x.m |-> [j \in 1..x.n |-> multiply(x.values[i][j], y)]])
      [] cb.op = "/" ->
            mapMatrix(x, [i \in 1..x.m |-> [j \in 1..x.n |-> divide(x.values[i][j], y)]])
      [] cb.op = "^" ->
            mapMatrix(x, [i \in 1..x.m |-> [j \in 1..x.n |->
                             Ok(valueWrap(Pow(x.values[i][j].value, y.value)), <<>>)]])

\* plus's matrix, matrix closure
plusMatrixMatrix(x, y) ==
    IF x.n # y.n \/ x.m # y.m
    THEN Throw(ShapeError("Equation resolve: cannot add matrix to matrix", x, y), <<>>)
    ELSE CollectCells(Len(x.values), Len(x.values[1]),
            [i \in 1..Len(x.values) |-> [j \in 1..Len(x.values[i]) |->
                plus(x.values[i][j], y.values[i][j])]])

\* multiply's matrix, matrix closure
multiplyMatrixMatrix(x, y) ==
    IF x.n = 1 /\ y.n = 1 THEN scalarProduct(x, y) ELSE matrixProduct(x, y)

matrixMatrix(cb, x, y) ==
    CASE cb.op = "+" -> plusMatrixMatrix(x, y)
      [] cb.op = "*" -> multiplyMatrixMatrix(x, y)

\* a combinator's outcome, its invocation logged before what it calls
Invoke(name, r) == [r EXCEPT !.log = <<name>> \o @]

\* the switch of lines 222-254
Dispatch(x, y, cb) ==
    LET name == CASE x.type = "number" /\ y.type = "number" -> "numberNumber"
                  [] x.type = "number" /\ y.type = "matrix" -> "numberMatrix"
                  [] x.type = "matrix" /\ y.type = "number" -> "matrixNumber"
                  [] x.type = "matrix" /\ y.type = "matrix" -> "matrixMatrix"
                  [] OTHER -> "none"
    IN  IF name = "none" \/ name \in NullCombinators(cb)
        THEN Throw(Error("Equation resolve: cannot handle operator"), <<>>)
        ELSE CASE name = "numberNumber" -> Invoke(name, numberNumber(cb, x, y))
               [] name = "numberMatrix" -> Invoke(name, numberMatrix(cb, x, y))
               [] name = "matrixNumber" -> Invoke(name, matrixNumber(cb, x, y))
               [] name = "matrixMatrix" -> Invoke(name, matrixMatrix(cb, x, y))

\* handleCases wrapping the result whatever the combined units
handleCasesAlwaysWraps(x, y, cb) ==
    IF x.type = "unit" \/ y.type = "unit"
    THEN Bind(Invoke("combineUnits", combineUnits(cb, getUnit(x), getUnit(y))), LAMBDA units :
            IF ~units.ok THEN units
            ELSE Bind(handleCases(getUnitless(x), getUnitless(y), cb), LAMBDA result :
                IF ~result.ok THEN Throw(result.err, units.log \o result.log)
                ELSE Ok([type |-> "unit", units |-> units.val, value |-> result.val],
                        units.log \o result.log)))
    ELSE Dispatch(x, y, cb)

\* handleCases recursing on the unitless operands before combining the units
handleCasesShapeFirst(x, y, cb) ==
    IF x.type = "unit" \/ y.type = "unit"
    THEN Bind(handleCases(getUnitless(x), getUnitless(y), cb), LAMBDA result :
            IF ~result.ok THEN result
            ELSE Bind(Invoke("combineUnits", combineUnits(cb, getUnit(x), getUnit(y))),
                      LAMBDA units :
                IF ~units.ok THEN Throw(units.err, result.log \o units.log)
                ELSE IF isEmptyUnit(units.val) THEN Ok(result.val, result.log \o units.log)
                ELSE Ok([type |-> "unit", units |-> units.val, value |-> result.val],
                        result.log \o units.log)))
    ELSE Dispatch(x, y, cb)

handleCases(x, y, cb) ==
    IF x.type = "unit" \/ y.type = "unit"
    THEN Bind(Invoke("combineUnits", combineUnits(cb, getUnit(x), getUnit(y))), LAMBDA units :
            IF ~units.ok THEN units
            ELSE Bind(handleCases(getUnitless(x), getUnitless(y), cb), LAMBDA result :
                IF ~result.ok THEN Throw(result.err, units.log \o result.log)
                ELSE IF isEmptyUnit(units.val) THEN Ok(result.val, units.log \o result.log)
                ELSE Ok([type |-> "unit", units |-> units.val, value |-> result.val],
                        units.log \o result.log)))
    ELSE Dispatch(x, y, cb)

\* the operator table
operators(o, x, y) ==
    CASE o = "+"  -> plus(x, y)
      [] o = "-"  -> minus(x, y)
      [] o = "+-" -> plusminus(x, y)
      [] o = "*"  -> multiply(x, y)
      [] o = "**" -> multiplyImplied(x, y)
      [] o = "/"  -> divide(x, y)
      [] o = "^"  -> power(x, y)

-----------------------------------------------------------------------------
(* Operands *)

UnitNames == {"m", "s"}

NumVals == -1..MaxVal

Numbers == {valueWrap(Num(v)) : v \in NumVals}

\* two families of matrices: seed 0 has zero cells, seed 1 has none
Seeds == {0, 1}

CellAt(seed, i, j) == seed + ((2 * i + j) % 3)

Mat(m, n, seed) ==
    [type |-> "matrix", m |-> m, n |-> n,
     values |-> [i \in 1..m |-> [j \in 1..n |-> valueWrap(Num(CellAt(seed, i, j)))]]]

Matrices == {Mat(m, n, seed) : m \in 1..MaxDim, n \in 1..MaxDim, seed \in Seeds}

Payloads == Numbers \cup Matrices

\* the unit maps of the operands: one unit to a positive power, and m/s
UnitMaps ==
    {[k \in {name} |-> Num(e)] : name \in UnitNames, e \in 1..MaxExp}
    \cup {[k \in UnitNames |-> IF k = "m" THEN Num(1) ELSE Num(-1)]}

WithUnit(units, v) == [type |-> "unit", units |-> units, value |-> v]

Operands == Payloads \cup {WithUnit(u, v) : u \in UnitMaps, v \in Payloads}

\* the operands of nested applications
NestOperands ==
    {valueWrap(Num(0)), valueWrap(Num(2)), valueWrap(Num(-1)),
     Mat(2, 1, 1), Mat(1, 2, 1), Mat(2, 2, 1),
     WithUnit([k \in {"m"} |-> Num(1)], valueWrap(Num(2))),
     WithUnit([k \in {"m"} |-> Num(-1)], Mat(2, 1, 1)),
     WithUnit([k \in {"s"} |-> Num(1)], Mat(2, 2, 0))}

\* every unit map over UnitNames, negative powers and the empty map included
AllUnitMaps ==
    UNION {[keys -> {Num(e) : e \in (-MaxExp..MaxExp) \ {0}}] : keys \in SUBSET UnitNames}

NoOutcome == Throw(NoError, <<>>)

NoUnitOutcome == [result |-> EmptyUnit, calls |-> EmptyUnit]

-----------------------------------------------------------------------------
(* The state machine: draw two operands, apply one operator *)

Idle == op = "none"

InitOps(operands) ==
    /\ a \in operands
    /\ b \in operands
    /\ op = "none"
    /\ out = NoOutcome
    /\ depth = 0
    /\ ua = EmptyUnit
    /\ ub = EmptyUnit
    /\ umapper = "none"
    /\ uout = NoUnitOutcome

Init == InitOps(Operands)

Plus ==
    /\ Idle
    /\ op' = "+"
    /\ out' = operators("+", a, b)
    /\ UNCHANGED <<a, b, depth, ua, ub, umapper, uout>>

Minus ==
    /\ Idle
    /\ op' = "-"
    /\ out' = operators("-", a, b)
    /\ UNCHANGED <<a, b, depth, ua, ub, umapper, uout>>

PlusMinus ==
    /\ Idle
    /\ op' = "+-"
    /\ out' = operators("+-", a, b)
    /\ UNCHANGED <<a, b, depth, ua, ub, umapper, uout>>

Multiply ==
    /\ Idle
    /\ op' = "*"
    /\ out' = operators("*", a, b)
    /\ UNCHANGED <<a, b, depth, ua, ub, umapper, uout>>

MultiplyImplied ==
    /\ Idle
    /\ op' = "**"
    /\ out' = operators("**", a, b)
    /\ UNCHANGED <<a, b, depth, ua, ub, umapper, uout>>

Divide ==
    /\ Idle
    /\ op' = "/"
    /\ out' = operators("/", a, b)
    /\ UNCHANGED <<a, b, depth, ua, ub, umapper, uout>>

\* Math.pow is not modelled for a finite non-integer exponent
Power ==
    /\ Idle
    /\ b.type = "number" => PowDefined(b.value)
    /\ op' = "^"
    /\ out' = operators("^", a, b)
    /\ UNCHANGED <<a, b, depth, ua, ub, umapper, uout>>

Next ==
    \/ Plus
    \/ Minus
    \/ PlusMinus
    \/ Multiply
    \/ MultiplyImplied
    \/ Divide
    \/ Power

Spec == Init /\ [][Next]_vars

-----------------------------------------------------------------------------
(* Nested applications: a result becomes an operand of a further operator *)

InRangeNumber(x) == Abs(x.num) <= MaxMag /\ Abs(x.den) <= MaxMag

InRangePayload(v) ==
    IF v.type = "number" THEN InRangeNumber(v.value)
    ELSE \A i \in 1..v.m : \A j \in 1..v.n : InRangeNumber(v.values[i][j].value)

InRange(v) ==
    /\ InRangePayload(getUnitless(v))
    /\ \A k \in DOMAIN getUnit(v) : InRangeNumber(getUnit(v)[k])

Feed ==
    /\ ~Idle
    /\ out.ok
    /\ depth < MaxDepth
    /\ InRange(out.val)
    /\ \E x \in NestOperands : \E left \in BOOLEAN :
          /\ a' = IF left THEN out.val ELSE x
          /\ b' = IF left THEN x ELSE out.val
    /\ op' = "none"
    /\ out' = NoOutcome
    /\ depth' = depth + 1
    /\ UNCHANGED <<ua, ub, umapper, uout>>

InitNest == InitOps(NestOperands)

NextNest ==
    \/ Next
    \/ Feed

SpecNest == InitNest /\ [][NextNest]_vars

-----------------------------------------------------------------------------
(* The unit algebra on its own: draw two unit maps, apply mapUnits or mapUnit *)

InitUnits ==
    /\ ua \in AllUnitMaps
    /\ ub \in AllUnitMaps
    /\ umapper = "none"
    /\ uout = NoUnitOutcome
    /\ a = Null
    /\ b = Null
    /\ op = "none"
    /\ out = NoOutcome
    /\ depth = 0

MapUnitsSum ==
    /\ umapper = "none"
    /\ umapper' = "sum"
    /\ uout' = mapUnits(ua, ub, SumMapper)
    /\ UNCHANGED <<a, b, op, out, depth, ua, ub>>

MapUnitsDifference ==
    /\ umapper = "none"
    /\ umapper' = "difference"
    /\ uout' = mapUnits(ua, ub, DifferenceMapper)
    /\ UNCHANGED <<a, b, op, out, depth, ua, ub>>

MapUnitScale ==
    /\ umapper = "none"
    /\ \E bTree \in Numbers :
          /\ umapper' = "scale"
          /\ ub' = [k \in {"factor"} |-> bTree.value]
          /\ uout' = mapUnit(ua, ScaleMapper(bTree))
    /\ UNCHANGED <<a, b, op, out, depth, ua>>

NextUnits ==
    \/ MapUnitsSum
    \/ MapUnitsDifference
    \/ MapUnitScale

SpecUnits == InitUnits /\ [][NextUnits]_vars

-----------------------------------------------------------------------------
(* Properties *)

UnitsDiffer(x, y) ==
    \/ DOMAIN getUnit(x) # DOMAIN getUnit(y)
    \/ \E k \in DOMAIN getUnit(x) : getUnit(x)[k] # getUnit(y)[k]

AddDifferentUnits == Error("Equation resolve: cannot add different units")

IsColumnVector(x) == x.type = "matrix" /\ x.n = 1

HasShape(v, m, n) ==
    /\ v.type = "matrix"
    /\ v.m = m
    /\ v.n = n
    /\ Len(v.values) = m
    /\ \A i \in 1..m : Len(v.values[i]) = n

\* C1: plus and minus of operands whose unit maps differ (also when only one
\* operand carries a unit) raise "cannot add different units" and return nothing.
C1_DifferentUnitsRaise ==
    (op \in {"+", "-"} /\ UnitsDiffer(a, b)) =>
        (~out.ok /\ out.err = AddDifferentUnits /\ out.val = Null)

C1_Witness ==
    /\ op = "-"
    /\ a.type = "unit"
    /\ b.type = "unit"
    /\ DOMAIN a.units = DOMAIN b.units
    /\ a.units # b.units
    /\ out.err = AddDifferentUnits

\* the difference of two unitless payloads of integers, cell by cell
Difference(x, y) ==
    LET Sub(p, q) == valueWrap(Num(p.value.num - q.value.num))
    IN  CASE x.type = "number" /\ y.type = "number" -> Sub(x, y)
          [] x.type = "number" /\ y.type = "matrix" ->
                [y EXCEPT !.values = [i \in 1..y.m |-> [j \in 1..y.n |-> Sub(x, y.values[i][j])]]]
          [] x.type = "matrix" /\ y.type = "number" ->
                [x EXCEPT !.values = [i \in 1..x.m |-> [j \in 1..x.n |-> Sub(x.values[i][j], y)]]]
          [] x.type = "matrix" /\ y.type = "matrix" ->
                [x EXCEPT !.values = [i \in 1..x.m |-> [j \in 1..x.n |->
                                         Sub(x.values[i][j], y.values[i][j])]]]

\* minus applied to two operands carrying the same unit map, of compatible shapes
C2_Case ==
    /\ op = "-"
    /\ a.type = "unit"
    /\ b.type = "unit"
    /\ ~UnitsDiffer(a, b)
    /\ \/ a.value.type = "number"
       \/ b.value.type = "number"
       \/ (a.value.m = b.value.m /\ a.value.n = b.value.n)

C3_DivideByZeroRaises ==
    (op = "/" /\ getUnitless(b).type = "number" /\ IsZero(getUnitless(b).value)) =>
        (~out.ok /\ out.err = Error("Equation resolve: cannot divide by 0"))

\* C4: multiplyImplied raises "cannot use implied multiplication for scalar
\* product" when both payloads are column vectors, wrapped in a Unit or not, and
\* has the outcome of multiply otherwise.
C4_ImpliedRejectsScalarProduct ==
    op = "**" =>
        IF IsColumnVector(getUnitless(a)) /\ IsColumnVector(getUnitless(b))
        THEN /\ ~out.ok
             /\ out.err = Error("Equation resolve: cannot use implied multiplication for scalar product")
        ELSE out = multiply(a, b)

\* divide applied to a nonzero Number and a Matrix without zero cells
C5_Case ==
    /\ op = "/"
    /\ a.type = "number"
    /\ ~IsZero(a.value)
    /\ b.type = "matrix"
    /\ \A i \in 1..b.m : \A j \in 1..b.n : ~IsZero(b.values[i][j].value)

\* C5 as stated: a Number divided by a Matrix is the Matrix of b's shape whose
\* cell (i, j) is b(i, j) divided by a.
C5_CellsDividedByNumber ==
    C5_Case =>
        /\ out.ok
        /\ HasShape(out.val, b.m, b.n)
        /\ \A i \in 1..b.m : \A j \in 1..b.n :
              out.val.values[i][j] = valueWrap(Div(b.values[i][j].value, a.value))

\* C5 as amended: a Number divided by a Matrix is the Matrix of b's shape whose
\* cell (i, j) is a divided by b(i, j).
C5_NumberDividedByCells ==
    C5_Case =>
        /\ out.ok
        /\ HasShape(out.val, b.m, b.n)
        /\ \A i \in 1..b.m : \A j \in 1..b.n :
              out.val.values[i][j] = valueWrap(Div(a.value, b.values[i][j].value))

C5_Witness ==
    /\ C5_Case
    /\ a = valueWrap(Num(2))
    /\ b = Mat(2, 2, 1)
    /\ out.ok
    /\ out.val.values[2][1].value = [num |-> 2, den |-> 3]

\* the sum over the first k indices of x(i, k) * y(k, j), on integers
RECURSIVE InnerProduct(_, _, _, _, _)
InnerProduct(x, y, i, j, k) ==
    IF k = 0 THEN 0
    ELSE InnerProduct(x, y, i, j, k - 1)
         + x.values[i][k].value.num * y.values[k][j].value.num

\* C6: multiply of two matrices that are not both column vectors returns, when
\* a.n = b.m, the a.m x b.n Matrix of the inner products of a's rows and b's
\* columns, and raises the "cannot multiply" shape error when a.n # b.m.
C6_MatrixProduct ==
    (op = "*" /\ a.type = "matrix" /\ b.type = "matrix" /\ ~(a.n = 1 /\ b.n = 1)) =>
        IF a.n = b.m
        THEN /\ out.ok
             /\ HasShape(out.val, a.m, b.n)
             /\ \A i \in 1..a.m : \A j \in 1..b.n :
                   out.val.values[i][j] = valueWrap(Num(InnerProduct(a, b, i, j, a.n)))
        ELSE /\ ~out.ok
             /\ out.err = ShapeError("Equation resolve: cannot multiply matrix with matrix", a, b)

C6_Witness ==
    /\ op = "*"
    /\ a = Mat(2, 3, 1)
    /\ b = Mat(3, 2, 1)
    /\ out.ok
    /\ HasShape(out.val, 2, 2)
    /\ out.val.values[1][1] = valueWrap(Num(13))

\* a's unit map with every exponent multiplied by the integer e, zero products removed
ScaledUnits(u, e) ==
    [k \in {k \in DOMAIN u : u[k].num * e.num # 0} |-> Num(u[k].num * e.num)]

\* pow applied to a scalar, or to every cell of a matrix
PowPayload(x, e) ==
    IF x.type = "number" THEN valueWrap(Pow(x.value, e))
    ELSE [x EXCEPT !.values = [i \in 1..x.m |-> [j \in 1..x.n |->
                                  valueWrap(Pow(x.values[i][j].value, e))]]]

\* C7: power raises exactly when b is not a bare Number ("exponent must be
\* unitless" for a Unit, "exponent must be a number" for a Matrix); otherwise the
\* result's unit map is a's with every exponent multiplied by b.value, zero
\* products removed and no Unit wrapper when it is empty, and its payload is pow
\* applied to a's scalar or to each cell of a's matrix.
C7_Power ==
    op = "^" =>
        /\ ~out.ok <=> b.type # "number"
        /\ b.type = "unit" => out.err = Error("Equation resolve: exponent must be unitless")
        /\ b.type = "matrix" => out.err = Error("Equation resolve: exponent must be a number")
        /\ b.type = "number" =>
              /\ getUnit(out.val) = ScaledUnits(getUnit(a), b.value)
              /\ out.val.type = "unit" <=> ScaledUnits(getUnit(a), b.value) # EmptyUnit
              /\ getUnitless(out.val) = PowPayload(getUnitless(a), b.value)

C7_Witness ==
    /\ op = "^"
    /\ a = WithUnit([k \in {"m"} |-> Num(1)], valueWrap(Num(2)))
    /\ b = valueWrap(Num(3))
    /\ out.val = WithUnit([k \in {"m"} |-> Num(3)], valueWrap(Num(8)))

WellFormedNumber(x) == x.type = "number" /\ DOMAIN x = {"type", "value"}

WellFormedMatrix(x) ==
    /\ x.type = "matrix"
    /\ x.m >= 1
    /\ x.n >= 1
    /\ Len(x.values) = x.m
    /\ \A i \in 1..x.m :
          /\ Len(x.values[i]) = x.n
          /\ \A j \in 1..x.n : WellFormedNumber(x.values[i][j])

WellFormed(x) ==
    \/ WellFormedNumber(x)
    \/ WellFormedMatrix(x)
    \/ /\ x.type = "unit"
       /\ DOMAIN x.units # {}
       /\ \A k \in DOMAIN x.units : ~IsZero(x.units[k])
       /\ WellFormedNumber(x.value) \/ WellFormedMatrix(x.value)

\* C8: every value returned by a nesting of the operators on well-formed operands
\* is well-formed: one level of Unit at most, a Unit only around a non-empty unit
\* map, m and n the actual row and column counts, every cell a bare Number.
C8_WellFormedResults ==
    /\ WellFormed(a)
    /\ WellFormed(b)
    /\ out.ok => WellFormed(out.val)

C8_Witness ==
    /\ depth = 2
    /\ out.ok
    /\ out.val.type = "unit"
    /\ out.val.value.type = "matrix"
    /\ a.type = "unit"
    /\ b.type = "matrix"

\* the exponent of key k in unit map u, 0 when absent
Exponent(u, k) == IF k \in DOMAIN u THEN u[k].num ELSE 0

Combined(k) ==
    IF umapper = "sum" THEN Exponent(ua, k) + Exponent(ub, k)
    ELSE Exponent(ua, k) - Exponent(ub, k)

\* C9: with the mappers of multiply and divide, mapUnits applies the mapper once
\* to each key of a or b and returns the map of the nonzero combined exponents:
\* a cancelled exponent is no key, and units that cancel give the empty map.
C9_MapUnits ==
    umapper \in {"sum", "difference"} =>
        /\ uout.calls = [k \in DOMAIN ua \cup DOMAIN ub |-> 1]
        /\ uout.result =
              [k \in {k \in DOMAIN ua \cup DOMAIN ub : Combined(k) # 0} |-> Num(Combined(k))]

C9_Witness ==
    /\ umapper = "difference"
    /\ DOMAIN ua = UnitNames
    /\ ub = ua
    /\ uout.result = EmptyUnit
    /\ uout.calls = [k \in UnitNames |-> 1]

UnitRuleCalls == Cardinality({i \in 1..Len(out.log) : out.log[i] = "combineUnits"})

\* the unit rule is invoked before every shape combinator
UnitRuleFirst == \A i \in 1..Len(out.log) : out.log[i] = "combineUnits" => i = 1

\* divide's and power's own checks, made before handleCases is called
PreDispatchRaises ==
    \/ op = "/" /\ b.type = "number" /\ IsZero(b.value)
    \/ op = "^" /\ b.type # "number"

\* C10 as stated: one application of plus, multiply, divide or power invokes the
\* unit rule once when an operand is a Unit and never otherwise, before any shape
\* combinator, so that a unit mismatch is reported rather than a shape mismatch.
C10_UnitRuleOncePerApplication ==
    op \in {"+", "*", "/", "^"} =>
        /\ UnitRuleCalls = IF a.type = "unit" \/ b.type = "unit" THEN 1 ELSE 0
        /\ UnitRuleFirst
        /\ (op = "+" /\ UnitsDiffer(a, b)) => out.err = AddDifferentUnits

\* C10 as amended: the unit rule is invoked once when an operand is a Unit and
\* the operator's own checks pass (divide: the divisor is not the bare Number 0;
\* power: the exponent is a bare Number), and never otherwise; it is invoked
\* before any shape combinator, so that a unit mismatch pre-empts a shape mismatch.
C10_UnitRuleOncePerDispatch ==
    op \in {"+", "*", "/", "^"} =>
        /\ UnitRuleCalls =
              IF (a.type = "unit" \/ b.type = "unit") /\ ~PreDispatchRaises THEN 1 ELSE 0
        /\ UnitRuleFirst
        /\ (op = "+" /\ UnitsDiffer(a, b)) => out.err = AddDifferentUnits

C10_Witness ==
    /\ op = "+"
    /\ a = WithUnit([k \in {"m"} |-> Num(1)], Mat(2, 2, 1))
    /\ b = WithUnit([k \in {"s"} |-> Num(1)], Mat(3, 3, 1))
    /\ out.log = <<"combineUnits">>
    /\ out.err = AddDifferentUnits

=============================================================================
